---- MODULE Spec2Model ----
(***************************************************************************)
(* Model of build-release.py: the release pipeline driver of               *)
(* ltc-release-builder.  The program is sequential; every external call    *)
(* (gbuild, gsign, gverify, git, gpg, mv, ...) is one step whose exit      *)
(* status is chosen nondeterministically.  subprocess.check_call raises on *)
(* a non-zero status, which ends the process with a traceback and exit     *)
(* code 1; subprocess.call only returns the status.                        *)
(***************************************************************************)
EXTENDS Integers, Sequences, FiniteSets, TLC

VARIABLES
    args,       \* the argparse namespace (parse_args), mutated by main
    pc,         \* position in the program: [st, tg, op]
    exit,       \* [how, code]: how the process ended and its exit code
    env,        \* os.environ entries written by main
    session,    \* gpg-agent state as left by preset_gpg_passphrase
    stageLog,   \* stage functions entered so far, in order
    calls,      \* builder / signer invocations so far, in order
    ledger,     \* gitian.sigs.ltc: working tree, index, commits
    sigs,       \* litecoin-detached-sigs: unpacked, staged, commits, tags, pushes
    host,       \* the machine: [bionic], and whether lsb_release was run
    probes,     \* verify(): ledger pulled, rc, and the gverify invocations so far
    release,    \* artifact groups moved into litecoin-binaries/<version>
    tree        \* litecoin-binaries/<version>: what it held before, its files, the glob that matched nothing

vars == <<args, pc, exit, env, host, session, stageLog, calls, ledger, sigs, probes, release, tree>>

----------------------------------------------------------------------------
(* Bounds and input sets *)

\* largest number of keygrips gpg lists for the signer
MaxKeygrips == 2

\* argparse leaves an omitted optional positional at None
None == "<None>"

Versions == {"1.2.3", "42"}
Signers == {"alice"}
\* the hash git show prints for FETCH_HEAD
MergeHeads == {"9f2c1e"}

Targets == <<"linux", "windows", "macos">>
StageOrder == <<"build", "codesign", "sign", "verify", "package">>

P(st, tg, op) == [st |-> st, tg |-> tg, op |-> op]
Halt == P("end", "-", "-")

Running == [how |-> "running", code |-> -1]
\* an uncaught exception: traceback, exit status 1
Raised == [how |-> "exception", code |-> 1]
SysExit(c) == [how |-> "sys.exit", code |-> c]
\* sys.exit(1) after the two usage lines of 58-59 or 62-63
UsageExit == [how |-> "usage", code |-> 1]
\* main returns after print('DONE')
Returned == [how |-> "return", code |-> 0]

----------------------------------------------------------------------------
(* The command line *)

\* what argparse yields for one command line, before parse_args touches it;
\* a positional given as '' is kept as the empty string
RawArgs ==
    [ is_commit : BOOLEAN, pull : BOOLEAN,
      verify : BOOLEAN, build : BOOLEAN, sign : BOOLEAN, buildsign : BOOLEAN,
      codesign : BOOLEAN, package : BOOLEAN,
      os : SUBSET {"l", "w", "m"},
      kvm : BOOLEAN, docker : BOOLEAN, setup : BOOLEAN,
      detach_sign : BOOLEAN, commit_files : BOOLEAN,
      signer : Signers \cup {None, ""}, version : Versions \cup {None, ""} ]

\* the defaults of lines 11-31, with both positionals given
Defaults ==
    [ is_commit |-> FALSE, pull |-> FALSE,
      verify |-> FALSE, build |-> FALSE, sign |-> FALSE, buildsign |-> FALSE,
      codesign |-> FALSE, package |-> FALSE,
      os |-> {"l", "w", "m"},
      kvm |-> FALSE, docker |-> FALSE, setup |-> FALSE,
      detach_sign |-> FALSE, commit_files |-> TRUE,
      signer |-> "alice", version |-> "1.2.3" ]

\* -B together with -b or -s selects nothing that -B alone does not
NoRedundantB(a) == a.buildsign => (~a.build /\ ~a.sign)

\* build, sign, codesign and package all selected or all left out
StagesTogether(a) ==
    /\ a.build = a.sign /\ a.sign = a.codesign /\ a.codesign = a.package
    /\ ~a.buildsign

\* signer and version are filled in this order (nargs='?', lines 30-31):
\* a command line without signer has no version either
Positionals(a) == a.signer = None => a.version = None

\* The command lines are drawn from three families, each varying in full
\* the options one part of the program reads and holding the others fixed.

\* every stage selection, target set and commit_files value
StageRequests ==
    { a \in { [Defaults EXCEPT !.verify = v, !.build = b, !.sign = s, !.buildsign = bs,
                               !.codesign = c, !.package = p, !.os = o, !.commit_files = cf] :
                v \in BOOLEAN, b \in BOOLEAN, s \in BOOLEAN, bs \in BOOLEAN,
                c \in BOOLEAN, p \in BOOLEAN, o \in SUBSET {"l", "w", "m"}, cf \in BOOLEAN } :
        NoRedundantB(a) }

\* every way of naming the revision, with detach_sign and commit_files
OptionRequests ==
    { a \in { [Defaults EXCEPT !.is_commit = ic, !.pull = pl, !.version = ver,
                               !.detach_sign = d, !.commit_files = cf, !.os = o,
                               !.verify = v, !.build = b, !.sign = b, !.codesign = b,
                               !.package = b] :
                ic \in BOOLEAN, pl \in BOOLEAN, ver \in Versions, d \in BOOLEAN,
                cf \in BOOLEAN, o \in {{"l", "w", "m"}, {"l"}}, v \in BOOLEAN, b \in BOOLEAN } :
        ~(a.is_commit /\ a.pull) }

\* everything parse_args, environment normalization and setup read
FrontRequests ==
    { a \in { [Defaults EXCEPT !.is_commit = ic, !.pull = pl, !.kvm = k, !.docker = dk,
                               !.setup = su, !.signer = sg, !.version = ver,
                               !.verify = b, !.build = b, !.sign = b, !.codesign = b,
                               !.package = b] :
                ic \in BOOLEAN, pl \in BOOLEAN, k \in BOOLEAN, dk \in BOOLEAN,
                su \in BOOLEAN, sg \in Signers \cup {None, ""},
                ver \in Versions \cup {None, ""}, b \in BOOLEAN } :
        Positionals(a) }

\* fields parse_args and main add to the namespace
Derived ==
    [ commit |-> None, linux |-> FALSE, windows |-> FALSE, macos |-> FALSE,
      sign_prog |-> None, is_bionic |-> FALSE ]

\* USE_LXC, USE_VBOX, USE_DOCKER as inherited from the calling shell
InheritedEnvs ==
    { [USE_LXC |-> v, USE_VBOX |-> v, USE_DOCKER |-> v] : v \in {"", "1"} }

CleanEnv == [USE_LXC |-> "", USE_VBOX |-> "", USE_DOCKER |-> ""]

\* a launch: a command line, the inherited environment, and whether the host
\* is Ubuntu bionic (what lsb_release -cs will answer)
\* no agent is running; st and tg name the call of preset_gpg_passphrase
\* that stopped it
NoSession(st, tg) ==
    [agent |-> FALSE, listed |-> 0, cached |-> 0, short |-> FALSE,
     stage |-> st, target |-> tg, done |-> FALSE]

Launches ==
    { [a |-> a, e |-> CleanEnv, bionic |-> FALSE] : a \in StageRequests \cup OptionRequests }
    \cup
    { [a |-> a, e |-> e, bionic |-> b] :
        a \in FrontRequests, e \in InheritedEnvs, b \in BOOLEAN }

Init ==
    /\ \E l \in Launches :
        /\ args = l.a @@ Derived
        /\ env = l.e
        /\ host = [bionic |-> l.bionic, queried |-> FALSE]
    /\ pc = P("parse_args", "-", "flags")
    /\ exit = Running
    /\ session = NoSession("-", "-")
    /\ stageLog = <<>>
    /\ calls = <<>>
    /\ ledger = [wt |-> {}, absent |-> {}, index |-> {}, foreign |-> "unseen",
                 issued |-> 0, commits |-> <<>>]
    /\ sigs = [unpacked |-> FALSE, staged |-> FALSE, commits |-> 0, tags |-> 0, pushes |-> 0]
    /\ probes = [pulled |-> FALSE, rc |-> 0, log |-> <<>>]
    /\ release = {}
    /\ tree = [pre |-> "unseen", files |-> {}, nomatch |-> "-"]

\* the process ends with an uncaught exception
Raise ==
    /\ pc' = Halt
    /\ exit' = Raised

\* sys.exit(c)
Exit(c) ==
    /\ pc' = Halt
    /\ exit' = SysExit(c)

At(st, op) == pc.st = st /\ pc.op = op

----------------------------------------------------------------------------
(* parse_args *)

\* CommitRef with the 'v' put in front whatever -c says
CommitRefAlwaysV(is_commit, version) == "v" \o version

\* args.commit of line 41
CommitRef(is_commit, version) == (IF is_commit THEN "" ELSE "v") \o version

\* args.sign_prog of line 53
SignProg(detach_sign) ==
    IF detach_sign THEN "true" ELSE "gpg --batch --yes --detach-sign"

\* lines 34-53: the flag conflicts, then the derived fields.  With no version
\* on the command line, line 41 adds a str to None and raises TypeError.
ParseFlags ==
    /\ At("parse_args", "flags")
    /\ IF \/ (args.is_commit /\ args.pull)
          \/ (args.kvm /\ args.docker)
          \/ args.version = None
       THEN /\ Raise
            /\ UNCHANGED args
       ELSE /\ args' = [args EXCEPT
                    !.commit = CommitRef(args.is_commit, args.version),
                    !.build = args.build \/ args.buildsign,
                    !.sign = args.sign \/ args.buildsign,
                    !.linux = "l" \in args.os,
                    !.windows = "w" \in args.os,
                    !.macos = "m" \in args.os,
                    !.sign_prog = SignProg(args.detach_sign)]
            /\ pc' = P("parse_args", "-", "lsb_release")
            /\ UNCHANGED exit
    /\ UNCHANGED <<env, host, session, stageLog, calls, ledger, sigs, probes, release, tree>>

\* line 54: subprocess.check_output(['lsb_release', '-cs'])
LsbRelease ==
    /\ At("parse_args", "lsb_release")
    /\ host' = [host EXCEPT !.queried = TRUE]
    /\ \E ok \in BOOLEAN :
        IF ok
        THEN /\ args' = [args EXCEPT !.is_bionic = host.bionic]
             /\ pc' = P("parse_args", "-", "positional")
             /\ UNCHANGED exit
        ELSE /\ Raise
             /\ UNCHANGED args
    /\ UNCHANGED <<env, session, stageLog, calls, ledger, sigs, probes, release, tree>>

\* "not args.signer", "not args.version": None and '' alike
Missing(x) == x = None \/ x = ""

\* lines 56-66: a missing signer or version prints the usage hint and exits 1
CheckPositional ==
    /\ At("parse_args", "positional")
    /\ IF Missing(args.signer) \/ Missing(args.version)
       THEN /\ pc' = Halt
            /\ exit' = UsageExit
       ELSE /\ pc' = P("main", "-", "env")
            /\ UNCHANGED exit
    /\ UNCHANGED <<args, env, host, session, stageLog, calls, ledger, sigs, probes, release, tree>>

----------------------------------------------------------------------------
(* main, up to the stages *)

\* NormalizedEnv without the clearing of lines 301-303
NormalizedEnvNoClear(e, docker, kvm) ==
    IF docker THEN [e EXCEPT !.USE_DOCKER = "1"]
    ELSE IF ~kvm THEN [e EXCEPT !.USE_LXC = "1"]
    ELSE e

\* lines 301-311: the three gitian-builder switches are cleared, then at
\* most one is set
NormalizedEnv(e, docker, kvm) ==
    LET cleared == [e EXCEPT !.USE_LXC = "", !.USE_VBOX = "", !.USE_DOCKER = ""]
    IN  IF docker THEN [cleared EXCEPT !.USE_DOCKER = "1"]
        ELSE IF ~kvm THEN [cleared EXCEPT !.USE_LXC = "1"]
        ELSE cleared

\* StageFrom taking the last selected stage instead of the first
StageFromLast(i) ==
    LET later == { j \in i..Len(StageOrder) : args[StageOrder[j]] }
    IN  IF later = {} THEN P("main", "-", "done")
        ELSE P(StageOrder[CHOOSE j \in later : \A k \in later : j >= k], "-", "enter")

\* the first stage function main calls from position i of lines 335-348 on,
\* or the final print
StageFrom(i) ==
    LET later == { j \in i..Len(StageOrder) : args[StageOrder[j]] }
    IN  IF later = {} THEN P("main", "-", "done")
        ELSE P(StageOrder[CHOOSE j \in later : \A k \in later : j <= k], "-", "enter")

StageIndex(st) == CHOOSE i \in 1..Len(StageOrder) : StageOrder[i] = st

\* where main continues when stage function st returns
AfterStage(st) == StageFrom(StageIndex(st) + 1)

\* lines 331-333
AfterResolve ==
    IF args.build \/ args.sign \/ args.codesign
    THEN P("main", "-", "git_pull")
    ELSE StageFrom(1)

\* lines 301-317 (the passphrase prompt of 313-314 changes nothing modelled)
NormalizeEnv ==
    /\ At("main", "env")
    /\ env' = NormalizedEnv(env, args.docker, args.kvm)
    /\ pc' = IF args.setup THEN P("setup", "-", "install") ELSE P("main", "-", "stages")
    /\ UNCHANGED <<args, exit, host, session, stageLog, calls, ledger, sigs, probes, release, tree>>

\* setup, lines 70-105: package installs, clones, make-base-vm.  With
\* --docker and no docker package installable it exits 1 (lines 81-83).
SetupInstall ==
    /\ At("setup", "install")
    /\ \/ /\ pc' = P("setup", "-", "finish")
          /\ UNCHANGED exit
       \/ Raise
       \/ /\ args.docker /\ ~args.kvm
          /\ Exit(1)
    /\ UNCHANGED <<args, env, host, session, stageLog, calls, ledger, sigs, probes, release, tree>>

\* setup, lines 107-122: on bionic with LXC it patches lxc-net and exits 0
\* asking for a reboot; otherwise it downloads the SDK and osslsigncode
SetupFinish ==
    /\ At("setup", "finish")
    /\ \E ok \in BOOLEAN :
        IF ~ok THEN Raise
        ELSE IF args.is_bionic /\ ~args.kvm /\ ~args.docker THEN Exit(0)
        ELSE /\ pc' = P("main", "-", "stages")
             /\ UNCHANGED exit
    /\ UNCHANGED <<args, env, host, session, stageLog, calls, ledger, sigs, probes, release, tree>>

\* CheckStages without the pull-request branch of lines 322-326
CheckStagesNoPull ==
    /\ At("main", "stages")
    /\ IF ~args.build /\ ~args.sign /\ ~args.verify /\ ~args.codesign /\ ~args.package
       THEN Exit(0)
       ELSE /\ pc' = AfterResolve
            /\ UNCHANGED exit
    /\ UNCHANGED <<args, env, host, session, stageLog, calls, ledger, sigs, probes, release, tree>>

\* main resolving the pull request before it looks at the stages requested
CheckStagesPullFirst ==
    /\ At("main", "stages")
    /\ IF args.pull
       THEN /\ pc' = P("main", "-", "fetch")
            /\ UNCHANGED exit
       ELSE IF ~args.build /\ ~args.sign /\ ~args.verify /\ ~args.codesign /\ ~args.package
       THEN Exit(0)
       ELSE /\ pc' = AfterResolve
            /\ UNCHANGED exit
    /\ UNCHANGED <<args, env, host, session, stageLog, calls, ledger, sigs, probes, release, tree>>

\* lines 319-322
CheckStages ==
    /\ At("main", "stages")
    /\ IF ~args.build /\ ~args.sign /\ ~args.verify /\ ~args.codesign /\ ~args.package
       THEN Exit(0)
       ELSE /\ pc' = IF args.pull THEN P("main", "-", "fetch") ELSE AfterResolve
            /\ UNCHANGED exit
    /\ UNCHANGED <<args, env, host, session, stageLog, calls, ledger, sigs, probes, release, tree>>

\* lines 323-324: git fetch <url> refs/pull/<version>/merge
PullFetch ==
    /\ At("main", "fetch")
    /\ \E ok \in BOOLEAN :
        IF ok THEN /\ pc' = P("main", "-", "show")
                   /\ UNCHANGED exit
        ELSE Raise
    /\ UNCHANGED <<args, env, host, session, stageLog, calls, ledger, sigs, probes, release, tree>>

\* lines 325-326: args.commit becomes the hash of FETCH_HEAD, args.version
\* becomes pull-<n>
PullShow ==
    /\ At("main", "show")
    /\ \/ /\ \E h \in MergeHeads :
                args' = [args EXCEPT !.commit = h, !.version = "pull-" \o args.version]
          /\ pc' = AfterResolve
          /\ UNCHANGED exit
       \/ /\ Raise
          /\ UNCHANGED args
    /\ UNCHANGED <<env, host, session, stageLog, calls, ledger, sigs, probes, release, tree>>

\* lines 331-333: git pull in gitian-builder
BuilderPull ==
    /\ At("main", "git_pull")
    /\ \E ok \in BOOLEAN :
        IF ok THEN /\ pc' = StageFrom(1)
                   /\ UNCHANGED exit
        ELSE Raise
    /\ UNCHANGED <<args, env, host, session, stageLog, calls, ledger, sigs, probes, release, tree>>

\* line 350
Finish ==
    /\ At("main", "done")
    /\ pc' = Halt
    /\ exit' = Returned
    /\ UNCHANGED <<args, env, host, session, stageLog, calls, ledger, sigs, probes, release, tree>>

----------------------------------------------------------------------------
(* Helpers of the stage functions *)

TargetIndex(tg) == CHOOSE i \in 1..Len(Targets) : Targets[i] = tg

\* the --release label gsign is given in build() for a target
UnsignedPhase(tg) ==
    CASE tg = "linux" -> "linux"
      [] tg = "windows" -> "win-unsigned"
      [] tg = "macos" -> "osx-unsigned"

\* the --release label gsign is given in sign() for a target
SignedPhase(tg) ==
    CASE tg = "windows" -> "win-signed"
      [] tg = "macos" -> "osx-signed"

\* <version>-<phase>
ReleaseLabel(version, phase) == version \o "-" \o phase

\* the directory gsign writes under ../gitian.sigs.ltc/ and git add is given
LedgerPath(version, phase, signer) == ReleaseLabel(version, phase) \o "/" \o signer

GbuildCall(st, tg, ok) ==
    [prog |-> "gbuild", stage |-> st, target |-> tg, ref |-> args.commit,
     sign_prog |-> "-", ok |-> ok]

GsignCall(st, tg, label, ok) ==
    [prog |-> "gsign", stage |-> st, target |-> tg, ref |-> label,
     sign_prog |-> args.sign_prog, ok |-> ok]

\* git add <path> in the ledger: it fails when the path matches no file.  A
\* path this run did not write may or may not be there from an earlier run;
\* the add finds out.
GitAdd(path, next) ==
    \E there \in (IF path \in ledger.wt THEN {TRUE} ELSE BOOLEAN), ok \in BOOLEAN :
        IF there /\ ok
        THEN /\ ledger' = [ledger EXCEPT !.wt = @ \cup {path}, !.index = @ \cup {path}]
             /\ pc' = next
             /\ UNCHANGED exit
        ELSE /\ ledger' = [ledger EXCEPT
                    !.wt = IF there THEN @ \cup {path} ELSE @,
                    !.absent = IF there THEN @ ELSE @ \cup {path}]
             /\ Raise

\* what the ledger's working tree holds besides this run's entries: nothing,
\* or tracked files with local modifications that are not staged
ForeignKinds == {"clean", "modified"}

\* git commit [-a] in the ledger: one commit of what the index holds, and
\* with -a of every modified tracked file as well; local modifications do
\* not make git commit fail.  issued counts the invocations, commits holds
\* the ones that succeeded; the first commit finds out what else the
\* working tree holds.
GitCommit(st, all, next) ==
    \E ok \in BOOLEAN,
       kind \in (IF ledger.foreign = "unseen" THEN ForeignKinds ELSE {ledger.foreign}) :
        IF ok
        THEN /\ ledger' = [ledger EXCEPT
                    !.issued = @ + 1,
                    !.commits = Append(@, [by |-> st, paths |-> ledger.index,
                                           dirty |-> (kind = "modified"),
                                           others |-> (all /\ kind = "modified")]),
                    !.index = {},
                    !.foreign = IF all THEN "clean" ELSE kind]
             /\ pc' = next
             /\ UNCHANGED exit
        ELSE /\ ledger' = [ledger EXCEPT !.issued = @ + 1, !.foreign = kind]
             /\ Raise

----------------------------------------------------------------------------
(* preset_gpg_passphrase, lines 282-291 *)

\* where the caller continues
AfterPreset ==
    CASE pc.st = "build" -> P("build", pc.tg, "gsign")
      [] pc.st = "codesign" ->
            IF args.windows THEN P("codesign", "-", "cp_unsigned")
            ELSE IF args.commit_files THEN P("codesign", "-", "commit")
            ELSE AfterStage("codesign")
      [] pc.st = "sign" ->
            IF args.windows THEN P("sign", "windows", "cp")
            ELSE IF args.macos THEN P("sign", "macos", "cp")
            ELSE IF args.commit_files THEN P("sign", "windows", "add")
            ELSE AfterStage("sign")
      [] pc.st = "package" -> P("package", "-", "mv_debug")

\* line 285: subprocess.call, the status is dropped
GpgKill ==
    /\ pc.op = "kill"
    /\ session' = NoSession(pc.st, pc.tg)
    /\ pc' = [pc EXCEPT !.op = "agent"]
    /\ UNCHANGED <<args, exit, env, host, stageLog, calls, ledger, sigs, probes, release, tree>>

\* line 286: check_call of gpg-agent --daemon
GpgAgent ==
    /\ pc.op = "agent"
    /\ \E ok \in BOOLEAN :
        IF ok THEN /\ session' = [session EXCEPT !.agent = TRUE]
                   /\ pc' = [pc EXCEPT !.op = "keygrips"]
                   /\ UNCHANGED exit
        ELSE /\ Raise
             /\ UNCHANGED session
    /\ UNCHANGED <<args, env, host, stageLog, calls, ledger, sigs, probes, release, tree>>

\* the outcomes of the pipeline of line 288: the n keygrips that gpg | awk
\* printed, and whether gpg failed and left the list short of the signer's
\* keygrips
Listings ==
    { l \in [n : 0..MaxKeygrips, short : BOOLEAN] : l.short => l.n < MaxKeygrips }

\* line 288: subprocess.run without check, and the pipeline's status is
\* awk's; whatever lines were printed are the keygrips.  With none the loop
\* of line 290 is empty and the function returns.
GpgKeygrips ==
    /\ pc.op = "keygrips"
    /\ \E l \in Listings :
        /\ session' = [session EXCEPT !.listed = l.n, !.short = l.short,
                                      !.done = (l.n = 0)]
        /\ pc' = IF l.n = 0 THEN AfterPreset ELSE [pc EXCEPT !.op = "preset"]
    /\ UNCHANGED <<args, exit, env, host, stageLog, calls, ledger, sigs, probes, release, tree>>

\* lines 290-291: one check_call of gpg-preset-passphrase per keygrip
GpgPreset ==
    /\ pc.op = "preset"
    /\ \E ok \in BOOLEAN :
        IF ok THEN /\ session' = [session EXCEPT !.cached = @ + 1,
                                                 !.done = (session.cached + 1 = session.listed)]
                   /\ pc' = IF session.cached + 1 = session.listed
                            THEN AfterPreset ELSE pc
                   /\ UNCHANGED exit
        ELSE /\ Raise
             /\ UNCHANGED session
    /\ UNCHANGED <<args, env, host, stageLog, calls, ledger, sigs, probes, release, tree>>

----------------------------------------------------------------------------
(* build, lines 124-159 *)

\* BuildCommitStart with the first git add left out
BuildCommitStartSkip ==
    IF args.commit_files THEN P("build", "windows", "add") ELSE StageFrom(2)

\* BuildCommitStart without the test of args.commit_files
BuildCommitStartAlways == P("build", "linux", "add")

\* sub occurs in s
Contains(s, sub) ==
    \E i \in 1..(Len(s) - Len(sub) + 1) : SubSeq(s, i, i + Len(sub) - 1) = sub

\* representative names of what the mv globs of lines 135, 143, 151, 200 and
\* 207 bring into litecoin-binaries/<version> for a release named v
GroupFiles(st, tg, v) ==
    CASE st = "build" /\ tg = "linux" ->
            { "litecoin-" \o v \o "-x86_64-linux-gnu.tar.gz",
              "litecoin-" \o v \o "-x86_64-linux-gnu-debug.tar.gz",
              "litecoin-" \o v \o ".tar.gz" }
      [] st = "build" /\ tg = "windows" ->
            { "litecoin-" \o v \o "-win64.zip",
              "litecoin-" \o v \o "-win64-debug.zip",
              "litecoin-" \o v \o "-win64-setup-unsigned.exe",
              "litecoin-" \o v \o ".tar.gz" }
      [] st = "build" /\ tg = "macos" ->
            { "litecoin-" \o v \o "-osx64.tar.gz",
              "litecoin-" \o v \o "-osx-unsigned.dmg",
              "litecoin-" \o v \o ".tar.gz" }
      [] st = "sign" /\ tg = "windows" -> { "litecoin-" \o v \o "-win64-setup.exe" }
      [] st = "sign" /\ tg = "macos" -> { "litecoin-" \o v \o "-osx.dmg" }

\* the files as entries of the release directory itself
TopLevel(names) == { [name |-> n, at |-> "."] : n \in names }

\* lines 153-159: the three adds are unconditional once commit_files is set
BuildCommitStart ==
    IF args.commit_files THEN P("build", "linux", "add") ELSE AfterStage("build")

\* the next "if args.<target>" of lines 130, 137, 145 that holds, from
\* position i on
BuildFrom(i) ==
    LET on == { j \in i..Len(Targets) : args[Targets[j]] }
    IN  IF on = {} THEN BuildCommitStart
        ELSE P("build", Targets[CHOOSE j \in on : \A k \in on : j <= k], "gbuild")

\* lines 127-128
BuildEnter ==
    /\ At("build", "enter")
    /\ stageLog' = Append(stageLog, "build")
    /\ pc' = BuildFrom(1)
    /\ UNCHANGED <<args, exit, env, host, session, calls, ledger, sigs, probes, release, tree>>

\* BuildGbuild with subprocess.call in place of check_call: a failed build
\* is skipped and the next target is tried
BuildGbuildContinue ==
    /\ At("build", "gbuild")
    /\ \E ok \in BOOLEAN :
        /\ calls' = Append(calls, GbuildCall("build", pc.tg, ok))
        /\ pc' = IF ok THEN [pc EXCEPT !.op = "kill"] ELSE BuildFrom(TargetIndex(pc.tg) + 1)
    /\ UNCHANGED <<args, exit, env, host, session, stageLog, ledger, sigs, probes, release, tree>>

\* build() going from gbuild straight to gsign
BuildGbuildUnstaged ==
    /\ At("build", "gbuild")
    /\ \E ok \in BOOLEAN :
        /\ calls' = Append(calls, GbuildCall("build", pc.tg, ok))
        /\ IF ok THEN /\ pc' = [pc EXCEPT !.op = "gsign"]
                      /\ UNCHANGED exit
           ELSE Raise
    /\ UNCHANGED <<args, env, host, session, stageLog, ledger, sigs, probes, release, tree>>

\* lines 132, 139, 147: check_call of bin/gbuild --commit litecoin=<args.commit>
BuildGbuild ==
    /\ At("build", "gbuild")
    /\ \E ok \in BOOLEAN :
        /\ calls' = Append(calls, GbuildCall("build", pc.tg, ok))
        /\ IF ok THEN /\ pc' = [pc EXCEPT !.op = "kill"]
                      /\ UNCHANGED exit
           ELSE Raise
    /\ UNCHANGED <<args, env, host, session, stageLog, ledger, sigs, probes, release, tree>>

\* build() moving a target's files whatever gsign returned
BuildGsignContinue ==
    /\ At("build", "gsign")
    /\ \E ok \in BOOLEAN :
        /\ calls' = Append(calls,
                GsignCall("build", pc.tg, ReleaseLabel(args.version, UnsignedPhase(pc.tg)), ok))
        /\ ledger' = IF ok THEN [ledger EXCEPT !.wt = @ \cup
                        {LedgerPath(args.version, UnsignedPhase(pc.tg), args.signer)}]
                     ELSE ledger
        /\ pc' = [pc EXCEPT !.op = IF pc.tg = "linux" THEN "mv" ELSE "mv_inputs"]
    /\ UNCHANGED <<args, exit, env, host, session, stageLog, sigs, probes, release, tree>>

\* lines 134, 141, 149: check_call of bin/gsign, which writes
\* ../gitian.sigs.ltc/<version>-<phase>/<signer>/
BuildGsign ==
    /\ At("build", "gsign")
    /\ \E ok \in BOOLEAN :
        /\ calls' = Append(calls,
                GsignCall("build", pc.tg, ReleaseLabel(args.version, UnsignedPhase(pc.tg)), ok))
        /\ IF ok
           THEN /\ ledger' = [ledger EXCEPT !.wt = @ \cup
                        {LedgerPath(args.version, UnsignedPhase(pc.tg), args.signer)}]
                /\ pc' = [pc EXCEPT !.op = IF pc.tg = "linux" THEN "mv" ELSE "mv_inputs"]
                /\ UNCHANGED exit
           ELSE /\ Raise
                /\ UNCHANGED ledger
    /\ UNCHANGED <<args, env, host, session, stageLog, sigs, probes, release, tree>>

\* lines 142, 150: the unsigned tarball goes to inputs/
BuildMvInputs ==
    /\ At("build", "mv_inputs")
    /\ \E ok \in BOOLEAN :
        IF ok THEN /\ pc' = [pc EXCEPT !.op = "mv"]
                   /\ UNCHANGED exit
        ELSE Raise
    /\ UNCHANGED <<args, env, host, session, stageLog, calls, ledger, sigs, probes, release, tree>>

\* lines 135, 143, 151: the target's artifacts go to litecoin-binaries/<version>
\* build() going on to the next target when the move failed
BuildMvContinue ==
    /\ At("build", "mv")
    /\ \E ok \in BOOLEAN :
        /\ release' = IF ok THEN release \cup {[stage |-> "build", target |-> pc.tg]}
                      ELSE release
        /\ tree' = IF ok THEN [tree EXCEPT !.files =
                                  @ \cup TopLevel(GroupFiles("build", pc.tg, args.version))]
                   ELSE tree
        /\ pc' = BuildFrom(TargetIndex(pc.tg) + 1)
    /\ UNCHANGED <<args, exit, env, host, session, stageLog, calls, ledger, sigs, probes>>

BuildMv ==
    /\ At("build", "mv")
    /\ \E ok \in BOOLEAN :
        IF ok THEN /\ release' = release \cup {[stage |-> "build", target |-> pc.tg]}
                   /\ tree' = [tree EXCEPT !.files =
                                  @ \cup TopLevel(GroupFiles("build", pc.tg, args.version))]
                   /\ pc' = BuildFrom(TargetIndex(pc.tg) + 1)
                   /\ UNCHANGED exit
        ELSE /\ Raise
             /\ UNCHANGED <<release, tree>>
    /\ UNCHANGED <<args, env, host, session, stageLog, calls, ledger, sigs, probes>>

\* lines 156-158: git add of the linux, win-unsigned and osx-unsigned paths
BuildAdd ==
    /\ At("build", "add")
    /\ GitAdd(LedgerPath(args.version, UnsignedPhase(pc.tg), args.signer),
              IF pc.tg = "macos" THEN P("build", "-", "commit")
              ELSE P("build", Targets[TargetIndex(pc.tg) + 1], "add"))
    /\ UNCHANGED <<args, env, host, session, stageLog, calls, sigs, probes, release, tree>>

\* line 159: git commit -m
BuildCommit ==
    /\ At("build", "commit")
    /\ GitCommit("build", FALSE, AfterStage("build"))
    /\ UNCHANGED <<args, env, host, session, stageLog, calls, sigs, probes, release, tree>>

----------------------------------------------------------------------------
(* codesign, lines 161-186 *)

\* line 163 comes first
CodesignEnter ==
    /\ At("codesign", "enter")
    /\ stageLog' = Append(stageLog, "codesign")
    /\ pc' = P("codesign", "-", "kill")
    /\ UNCHANGED <<args, exit, env, host, session, calls, ledger, sigs, probes, release, tree>>

CodesignOps == <<"cp_unsigned", "cp_scripts", "create", "checkout", "rm", "tar", "add">>

\* lines 170-180, one check_call each: copy the unsigned installers and the
\* scripts, win-codesign-create.sh, git checkout -B, rm, tar xf, git add -A
CodesignStep ==
    /\ pc.st = "codesign"
    /\ \E i \in 1..Len(CodesignOps) :
        /\ pc.op = CodesignOps[i]
        /\ \E ok \in BOOLEAN :
            IF ok
            THEN /\ sigs' = [sigs EXCEPT
                        !.unpacked = @ \/ pc.op = "tar",
                        !.staged = @ \/ pc.op = "add"]
                 /\ pc' = IF i < Len(CodesignOps) THEN [pc EXCEPT !.op = CodesignOps[i + 1]]
                          ELSE IF args.commit_files THEN P("codesign", "-", "commit")
                          ELSE AfterStage("codesign")
                 /\ UNCHANGED exit
            ELSE /\ Raise
                 /\ UNCHANGED sigs
    /\ UNCHANGED <<args, env, host, session, stageLog, calls, ledger, probes, release, tree>>

\* line 184: git commit in litecoin-detached-sigs
CodesignCommit ==
    /\ At("codesign", "commit")
    /\ \E ok \in BOOLEAN :
        /\ sigs' = [sigs EXCEPT !.commits = @ + 1, !.staged = @ /\ ~ok]
        /\ IF ok THEN /\ pc' = P("codesign", "-", "tag")
                      /\ UNCHANGED exit
           ELSE Raise
    /\ UNCHANGED <<args, env, host, session, stageLog, calls, ledger, probes, release, tree>>

\* line 185: git tag -s v<version>
CodesignTag ==
    /\ At("codesign", "tag")
    /\ \E ok \in BOOLEAN :
        /\ sigs' = [sigs EXCEPT !.tags = @ + 1]
        /\ IF ok THEN /\ pc' = P("codesign", "-", "push")
                      /\ UNCHANGED exit
           ELSE Raise
    /\ UNCHANGED <<args, env, host, session, stageLog, calls, ledger, probes, release, tree>>

\* line 186: git push --set-upstream origin v<version> --tags
CodesignPush ==
    /\ At("codesign", "push")
    /\ \E ok \in BOOLEAN :
        /\ sigs' = [sigs EXCEPT !.pushes = @ + 1]
        /\ IF ok THEN /\ pc' = AfterStage("codesign")
                      /\ UNCHANGED exit
           ELSE Raise
    /\ UNCHANGED <<args, env, host, session, stageLog, calls, ledger, probes, release, tree>>

----------------------------------------------------------------------------
(* sign, lines 188-214 *)

\* lines 190-193
SignEnter ==
    /\ At("sign", "enter")
    /\ stageLog' = Append(stageLog, "sign")
    /\ pc' = P("sign", "-", "kill")
    /\ UNCHANGED <<args, exit, env, host, session, calls, ledger, sigs, probes, release, tree>>

\* where sign() continues after the windows or the macos block
SignAfter(tg) ==
    IF tg = "windows" /\ args.macos THEN P("sign", "macos", "cp")
    ELSE IF args.commit_files THEN P("sign", "windows", "add")
    ELSE AfterStage("sign")

\* lines 197, 204: the unsigned tarball is copied under its fixed name
SignCp ==
    /\ At("sign", "cp")
    /\ \E ok \in BOOLEAN :
        IF ok THEN /\ pc' = [pc EXCEPT !.op = "gbuild"]
                   /\ UNCHANGED exit
        ELSE Raise
    /\ UNCHANGED <<args, env, host, session, stageLog, calls, ledger, sigs, probes, release, tree>>

\* lines 198, 205: check_call of bin/gbuild --commit signature=<args.commit>
SignGbuild ==
    /\ At("sign", "gbuild")
    /\ \E ok \in BOOLEAN :
        /\ calls' = Append(calls, GbuildCall("sign", pc.tg, ok))
        /\ IF ok THEN /\ pc' = [pc EXCEPT !.op = "gsign"]
                      /\ UNCHANGED exit
           ELSE Raise
    /\ UNCHANGED <<args, env, host, session, stageLog, ledger, sigs, probes, release, tree>>

\* lines 199, 206: check_call of bin/gsign
SignGsign ==
    /\ At("sign", "gsign")
    /\ \E ok \in BOOLEAN :
        /\ calls' = Append(calls,
                GsignCall("sign", pc.tg, ReleaseLabel(args.version, SignedPhase(pc.tg)), ok))
        /\ IF ok
           THEN /\ ledger' = [ledger EXCEPT !.wt = @ \cup
                        {LedgerPath(args.version, SignedPhase(pc.tg), args.signer)}]
                /\ pc' = [pc EXCEPT !.op = "mv"]
                /\ UNCHANGED exit
           ELSE /\ Raise
                /\ UNCHANGED ledger
    /\ UNCHANGED <<args, env, host, session, stageLog, sigs, probes, release, tree>>

\* lines 200, 207: the signed installer or image goes to the release directory
SignMv ==
    /\ At("sign", "mv")
    /\ \E ok \in BOOLEAN :
        IF ok THEN /\ release' = release \cup {[stage |-> "sign", target |-> pc.tg]}
                   /\ tree' = [tree EXCEPT !.files =
                                  @ \cup TopLevel(GroupFiles("sign", pc.tg, args.version))]
                   /\ pc' = SignAfter(pc.tg)
                   /\ UNCHANGED exit
        ELSE /\ Raise
             /\ UNCHANGED <<release, tree>>
    /\ UNCHANGED <<args, env, host, session, stageLog, calls, ledger, sigs, probes>>

\* lines 212-213: git add of the win-signed and osx-signed paths
SignAdd ==
    /\ At("sign", "add")
    /\ GitAdd(LedgerPath(args.version, SignedPhase(pc.tg), args.signer),
              IF pc.tg = "macos" THEN P("sign", "-", "commit")
              ELSE P("sign", "macos", "add"))
    /\ UNCHANGED <<args, env, host, session, stageLog, calls, sigs, probes, release, tree>>

\* line 214: git commit -a -m
SignCommit ==
    /\ At("sign", "commit")
    /\ GitCommit("sign", TRUE, AfterStage("sign"))
    /\ UNCHANGED <<args, env, host, session, stageLog, calls, sigs, probes, release, tree>>

----------------------------------------------------------------------------
(* verify, lines 216-250 *)

\* the -r labels and descriptors of lines 226, 231, 236, 241, 246
Probes == <<"linux", "win-unsigned", "osx-unsigned", "win-signed", "osx-signed">>

\* line 218
VerifyEnter ==
    /\ At("verify", "enter")
    /\ stageLog' = Append(stageLog, "verify")
    /\ probes' = [pulled |-> FALSE, rc |-> 0, log |-> <<>>]
    /\ pc' = P("verify", "-", "pull")
    /\ UNCHANGED <<args, exit, env, host, session, calls, ledger, sigs, release, tree>>

\* lines 220-221: check_call of git pull in the ledger
VerifyPull ==
    /\ At("verify", "pull")
    /\ \E ok \in BOOLEAN :
        IF ok THEN /\ pc' = P("verify", Probes[1], "gverify")
                   /\ probes' = [probes EXCEPT !.pulled = TRUE]
                   /\ UNCHANGED exit
        ELSE /\ Raise
             /\ UNCHANGED probes
    /\ UNCHANGED <<args, env, host, session, stageLog, calls, ledger, sigs, release, tree>>

\* ProbeRc overwriting rc with the last status
ProbeRcLast(rc, status) == IF status # 0 THEN 1 ELSE 0

\* rc after a probe that ended with the given status
ProbeRc(rc, status) == IF status # 0 THEN 1 ELSE rc

ProbeFollowing(ph) ==
    LET i == CHOOSE j \in 1..Len(Probes) : Probes[j] = ph
    IN  IF i < Len(Probes) THEN P("verify", Probes[i + 1], "gverify")
        ELSE P("verify", "-", "return")

\* VerifyProbe with check_call in place of call: a failing probe raises
VerifyProbeChecked ==
    /\ At("verify", "gverify")
    /\ \E status \in {0, 1} :
        /\ probes' = [probes EXCEPT
                         !.rc = ProbeRc(probes.rc, status),
                         !.log = Append(@, [release |-> ReleaseLabel(args.version, pc.tg),
                                            status |-> status])]
        /\ IF status = 0 THEN /\ pc' = ProbeFollowing(pc.tg)
                              /\ UNCHANGED exit
           ELSE Raise
    /\ UNCHANGED <<args, env, host, session, stageLog, calls, ledger, sigs, release, tree>>

\* lines 226-248: subprocess.call of bin/gverify; a non-zero status sets rc
VerifyProbe ==
    /\ At("verify", "gverify")
    /\ \E status \in {0, 1} :
        probes' = [probes EXCEPT
                      !.rc = ProbeRc(probes.rc, status),
                      !.log = Append(@, [release |-> ReleaseLabel(args.version, pc.tg),
                                         status |-> status])]
    /\ pc' = ProbeFollowing(pc.tg)
    /\ UNCHANGED <<args, exit, env, host, session, stageLog, calls, ledger, sigs, release, tree>>

\* lines 250 and 345: sys.exit(verify())
VerifyExit ==
    /\ At("verify", "return")
    /\ Exit(probes.rc)
    /\ UNCHANGED <<args, env, host, session, stageLog, calls, ledger, sigs, probes, release, tree>>

----------------------------------------------------------------------------
(* package, lines 252-280 *)

\* the shell commands of lines 265-280, one check_call each
PackageOps ==
    <<"mv_debug", "mv_unsigned", "mv_release", "sha",
      "mv_src", "mv_linux", "mv_osx", "mv_win", "sign">>

\* the mv commands: the directory they run in, what they select there (a
\* glob *<pat>*, every regular file, or the one path litecoin-<version>.tar.gz)
\* and the directory they move it to
PackageMoves ==
    [ mv_debug    |-> [from |-> ".", kind |-> "glob", pat |-> "-debug", to |-> "debug"],
      mv_unsigned |-> [from |-> ".", kind |-> "glob", pat |-> "-unsigned", to |-> "unsigned"],
      mv_release  |-> [from |-> ".", kind |-> "files", pat |-> "", to |-> "release"],
      mv_src      |-> [from |-> "release", kind |-> "path", pat |-> "", to |-> "release/src"],
      mv_linux    |-> [from |-> "release", kind |-> "glob", pat |-> "-linux", to |-> "release/linux"],
      mv_osx      |-> [from |-> "release", kind |-> "glob", pat |-> "-osx", to |-> "release/osx"],
      mv_win      |-> [from |-> "release", kind |-> "glob", pat |-> "-win", to |-> "release/win"] ]

IsMove(op) == op \in DOMAIN PackageMoves

\* the entries the mv command op is given by the shell (or by find | xargs)
Matches(files, op, v) ==
    LET m == PackageMoves[op]
    IN  { f \in files :
            /\ f.at = m.from
            /\ CASE m.kind = "glob" -> Contains(f.name, m.pat)
                 [] m.kind = "files" -> TRUE
                 [] m.kind = "path" -> f.name = "litecoin-" \o v \o ".tar.gz" }

\* the directory after the mv command op
Moved(files, op, v) ==
    (files \ Matches(files, op, v))
        \cup { [name |-> f.name, at |-> PackageMoves[op].to] : f \in Matches(files, op, v) }

\* line 271 leaves the clear-signed manifest in release/
Summed(files) == files \cup { [name |-> "SHA256SUMS.asc", at |-> "release"] }

\* the directory after the commands PackageOps[i..] have all succeeded
RECURSIVE PackagedFrom(_, _, _)
PackagedFrom(files, i, v) ==
    IF i > Len(PackageOps) THEN files
    ELSE PackagedFrom(
            IF IsMove(PackageOps[i]) THEN Moved(files, PackageOps[i], v)
            ELSE IF PackageOps[i] = "sha" THEN Summed(files)
            ELSE files,
            i + 1, v)

\* everything a full build and sign of v moves into the directory
FlatFiles(v) ==
    TopLevel(UNION { GroupFiles("build", tg, v) : tg \in {"linux", "windows", "macos"} }
             \cup UNION { GroupFiles("sign", tg, v) : tg \in {"windows", "macos"} })

\* what the directory may hold from earlier runs when package() first looks:
\* nothing, the flat files of a build and sign, or the layout an earlier
\* package() left
PreKinds == {"none", "flat", "packaged"}

PreFiles(kind, v) ==
    CASE kind = "none" -> {}
      [] kind = "flat" -> FlatFiles(v)
      [] kind = "packaged" -> PackagedFrom(FlatFiles(v), 1, v)

\* lines 256-260; what is in the directory from earlier runs shows here
PackageEnter ==
    /\ At("package", "enter")
    /\ stageLog' = Append(stageLog, "package")
    /\ \E kind \in PreKinds :
        tree' = [tree EXCEPT !.pre = kind,
                             !.files = PreFiles(kind, args.version) \cup @]
    /\ pc' = P("package", "-", "kill")
    /\ UNCHANGED <<args, exit, env, host, session, calls, ledger, sigs, probes, release>>

\* where package() goes after the command PackageOps[i]
PackageAfter(i) ==
    IF i < Len(PackageOps) THEN P("package", "-", PackageOps[i + 1])
    ELSE AfterStage("package")

\* lines 265-267 and 274-277: mv exits non-zero when its glob matched
\* nothing (the pattern is passed on literally) and when find | xargs hands
\* it no file
PackageMv ==
    /\ pc.st = "package"
    /\ \E i \in 1..Len(PackageOps) :
        /\ pc.op = PackageOps[i]
        /\ IsMove(pc.op)
        /\ IF Matches(tree.files, pc.op, args.version) = {}
           THEN /\ tree' = [tree EXCEPT !.nomatch = pc.op]
                /\ Raise
           ELSE \E ok \in BOOLEAN :
                IF ok THEN /\ tree' = [tree EXCEPT !.files = Moved(@, pc.op, args.version)]
                           /\ pc' = PackageAfter(i)
                           /\ UNCHANGED exit
                ELSE /\ Raise
                     /\ UNCHANGED tree
    /\ UNCHANGED <<args, env, host, session, stageLog, calls, ledger, sigs, probes, release>>

\* line 271: sha256sum * exits non-zero on a directory, and release/ holds
\* src, linux, osx and win once an earlier package() has run
PackageSha ==
    /\ At("package", "sha")
    /\ \E ok \in BOOLEAN :
        IF ok /\ tree.pre # "packaged"
        THEN /\ tree' = [tree EXCEPT !.files = Summed(@)]
             /\ pc' = P("package", "-", "mv_src")
             /\ UNCHANGED exit
        ELSE /\ Raise
             /\ UNCHANGED tree
    /\ UNCHANGED <<args, env, host, session, stageLog, calls, ledger, sigs, probes, release>>

\* line 280: the detached signatures
PackageSign ==
    /\ At("package", "sign")
    /\ \E ok \in BOOLEAN :
        IF ok THEN /\ release' = release \cup {[stage |-> "package", target |-> "-"]}
                   /\ pc' = AfterStage("package")
                   /\ UNCHANGED exit
        ELSE /\ Raise
             /\ UNCHANGED release
    /\ UNCHANGED <<args, env, host, session, stageLog, calls, ledger, sigs, probes, tree>>

----------------------------------------------------------------------------

Next ==
    \/ ParseFlags \/ LsbRelease \/ CheckPositional
    \/ NormalizeEnv \/ SetupInstall \/ SetupFinish \/ CheckStages
    \/ PullFetch \/ PullShow \/ BuilderPull \/ Finish
    \/ GpgKill \/ GpgAgent \/ GpgKeygrips \/ GpgPreset
    \/ BuildEnter \/ BuildGbuild \/ BuildGsign \/ BuildMvInputs \/ BuildMv
    \/ BuildAdd \/ BuildCommit
    \/ CodesignEnter \/ CodesignStep \/ CodesignCommit \/ CodesignTag \/ CodesignPush
    \/ SignEnter \/ SignCp \/ SignGbuild \/ SignGsign \/ SignMv \/ SignAdd \/ SignCommit
    \/ VerifyEnter \/ VerifyPull \/ VerifyProbe \/ VerifyExit
    \/ PackageEnter \/ PackageMv \/ PackageSha \/ PackageSign

Spec == Init /\ [][Next]_vars

----------------------------------------------------------------------------
(* Properties *)

Range(q) == { q[i] : i \in 1..Len(q) }

StageRank(st) ==
    CASE st = "build" -> 1 [] st = "codesign" -> 2 [] st = "sign" -> 3
      [] st = "verify" -> 4 [] st = "package" -> 5

TargetRank(tg) ==
    CASE tg = "linux" -> 1 [] tg = "windows" -> 2 [] tg = "macos" -> 3

AllStages == {"build", "codesign", "sign", "verify", "package"}
AllTargets == {"linux", "windows", "macos"}

\* main has not reached the stage calls of lines 335-348
BeforeStages ==
    \/ pc.st \in {"parse_args", "setup"}
    \/ (pc.st = "main" /\ pc.op # "done")

\* the stage function st was entered and has returned to main
StageReturned(st) ==
    /\ st \in Range(stageLog)
    /\ pc.st # st
    /\ ~(pc = Halt /\ exit = Raised /\ stageLog[Len(stageLog)] = st)

BuildGbuilds == SelectSeq(calls, LAMBDA c : c.prog = "gbuild" /\ c.stage = "build")

CommitsBy(st) == SelectSeq(ledger.commits, LAMBDA c : c.by = st)

UnsignedPaths ==
    { LedgerPath(args.version, ph, args.signer) : ph \in {"linux", "win-unsigned", "osx-unsigned"} }

SignedPaths ==
    { LedgerPath(args.version, ph, args.signer) : ph \in {"win-signed", "osx-signed"} }

\* C1: the stage functions run in the order build, codesign, sign, verify,
\* package: a stage runs only if it was selected, only after every selected
\* stage that comes earlier in that order, and only after environment
\* normalization, setup and pull-request resolution.
C1_StagesInOrder ==
    /\ \A i, j \in 1..Len(stageLog) :
          i < j => StageRank(stageLog[i]) < StageRank(stageLog[j])
    /\ \A i \in 1..Len(stageLog) :
          /\ args[stageLog[i]]
          /\ \A r \in AllStages :
                (args[r] /\ StageRank(r) < StageRank(stageLog[i]))
                    => \E k \in 1..(i - 1) : stageLog[k] = r
    /\ BeforeStages => stageLog = <<>>
    /\ stageLog # <<>> =>
          /\ env = NormalizedEnv(env, args.docker, args.kvm)
          /\ args.pull => args.commit \in MergeHeads

C1_Witness ==
    /\ stageLog = <<"build", "codesign", "sign", "verify">>
    /\ args.setup /\ args.pull /\ args.package

ProbeLabels(v) ==
    << v \o "-linux", v \o "-win-unsigned", v \o "-osx-unsigned",
       v \o "-win-signed", v \o "-osx-signed" >>

\* C3: once verify() has pulled the ledger, gverify is invoked for linux,
\* win-unsigned, osx-unsigned, win-signed, osx-signed, once each and in that
\* order, whatever the earlier probes returned and whichever targets are
\* enabled; the process does not end before all five have run.
C3_AllProbesRun ==
    /\ Len(probes.log) <= Len(ProbeLabels(args.version))
    /\ \A i \in 1..Len(probes.log) :
          probes.log[i].release = ProbeLabels(args.version)[i]
    /\ ~probes.pulled => probes.log = <<>>
    /\ (pc.st = "verify" /\ pc.op = "gverify") => probes.pulled
    /\ (probes.pulled /\ pc = Halt) => Len(probes.log) = Len(ProbeLabels(args.version))

C3_Witness ==
    /\ pc = Halt
    /\ Len(probes.log) = Len(Probes)
    /\ probes.log[1].status = 1 /\ probes.log[2].status = 1
    /\ ~args.linux /\ ~args.windows /\ ~args.macos

AllProbesPassed ==
    /\ Len(probes.log) = Len(Probes)
    /\ \A i \in 1..Len(probes.log) : probes.log[i].status = 0

\* C4: a run that entered verify() ends with exit code 0 if all five probes
\* ran and passed, and with exit code 1 otherwise.
C4_ExitCodeIsAggregate ==
    (pc = Halt /\ "verify" \in Range(stageLog)) =>
        /\ exit.code \in {0, 1}
        /\ exit.code = 0 <=> AllProbesPassed

C4_Witness ==
    /\ pc = Halt
    /\ Len(probes.log) = Len(Probes)
    /\ probes.log[3].status = 1
    /\ \A i \in {1, 2, 4, 5} : probes.log[i].status = 0
    /\ exit.code = 1

\* C5 as stated: when verify and package are both selected and no required
\* step failed, package() runs after verify() has completed.
C5_Original ==
    (pc = Halt /\ args.verify /\ args.package /\ "verify" \in Range(stageLog)
        /\ exit.how # "exception")
    => "package" \in Range(stageLog)

\* C6: with commit_files, build() and sign() each make at most one ledger
\* commit; a build commit holds exactly the three unsigned-phase paths and a
\* sign commit exactly the two signed-phase paths; a build() or sign() that
\* returned has made its one commit.
C6_OneCommitPerStage ==
    args.commit_files =>
        /\ Len(CommitsBy("build")) <= 1
        /\ Len(CommitsBy("sign")) <= 1
        /\ \A i \in 1..Len(ledger.commits) :
              ledger.commits[i].paths =
                  (IF ledger.commits[i].by = "build" THEN UnsignedPaths ELSE SignedPaths)
        /\ StageReturned("build") => Len(CommitsBy("build")) = 1
        /\ StageReturned("sign") => Len(CommitsBy("sign")) = 1

C6_Witness ==
    /\ pc = Halt
    /\ Len(ledger.commits) = 2
    /\ ledger.commits[1].by = "build" /\ Cardinality(ledger.commits[1].paths) = 3
    /\ ledger.commits[2].by = "sign" /\ Cardinality(ledger.commits[2].paths) = 2

C7_Request ==
    /\ args.version = "1.2.3" /\ ~args.is_commit /\ ~args.pull
    /\ args.os = {"l"}
    /\ args.build /\ ~args.buildsign /\ ~args.sign /\ ~args.codesign
    /\ ~args.verify /\ ~args.package
    /\ args.commit_files

\* C7 as stated: version 1.2.3, linux only, build only, commit_files: when
\* the builder, the signer and the move succeeded, the run ends with exactly
\* one ledger commit holding 1.2.3-linux/<signer>, also when the entries of
\* the disabled targets are not in the ledger.
C7_Original ==
    (/\ C7_Request
     /\ pc = Halt
     /\ [stage |-> "build", target |-> "linux"] \in release
     /\ ledger.absent # {})
    => /\ Len(BuildGbuilds) = 1 /\ BuildGbuilds[1].ref = "v1.2.3"
       /\ Len(ledger.commits) = 1
       /\ LedgerPath("1.2.3", "linux", args.signer) \in ledger.commits[1].paths

\* C8: without commit_files no git commit is invoked, in the ledger or in
\* the detached-signature repository.
C8_NoCommitWithoutCommitFiles ==
    ~args.commit_files =>
        /\ ledger.issued = 0 /\ ledger.commits = <<>>
        /\ sigs.commits = 0

C8_Witness ==
    /\ ~args.commit_files
    /\ pc = Halt /\ exit = Returned
    /\ stageLog = <<"build", "codesign", "sign", "package">>
    /\ args.linux /\ args.windows /\ args.macos

\* C9 as stated: with detach_sign no git commit is invoked.
C9_Original ==
    args.detach_sign => (ledger.issued = 0 /\ sigs.commits = 0)

\* main has run lines 301-311
EnvNormalized ==
    \/ (pc.st \notin {"parse_args", "end"} /\ ~At("main", "env"))
    \/ stageLog # <<>>

Switches == {"USE_LXC", "USE_VBOX", "USE_DOCKER"}
SwitchesSet == { k \in Switches : env[k] # "" }

\* C10 (as amended): after environment normalization at most one of USE_LXC,
\* USE_VBOX, USE_DOCKER is set: USE_DOCKER with --docker, USE_LXC with
\* neither flag, and none of them with --kvm.
C10_AtMostOneSwitch ==
    EnvNormalized =>
        SwitchesSet = (IF args.docker THEN {"USE_DOCKER"}
                       ELSE IF args.kvm THEN {}
                       ELSE {"USE_LXC"})

C10_Witness ==
    /\ EnvNormalized
    /\ args.kvm /\ ~args.docker
    /\ SwitchesSet = {}
    /\ stageLog # <<>>

\* C10 as stated: after environment normalization exactly one switch is set.
C10_Original ==
    EnvNormalized => Cardinality(SwitchesSet) = 1


Gbuilds == SelectSeq(calls, LAMBDA c : c.prog = "gbuild")
Gsigns == SelectSeq(calls, LAMBDA c : c.prog = "gsign")

\* C11: without -p, every gbuild invocation of build() and sign() is given
\* the version itself as commit when -c is set and 'v' + version otherwise,
\* the same value at every invocation of the run.
C11_CommitRefFromVersion ==
    ~args.pull =>
        \A i \in 1..Len(Gbuilds) :
            /\ Gbuilds[i].ref = (IF args.is_commit THEN args.version ELSE "v" \o args.version)
            /\ Gbuilds[i].ref = Gbuilds[1].ref

C11_Witness ==
    /\ args.is_commit /\ args.version = "42"
    /\ Len(Gbuilds) = 5
    /\ Gbuilds[1].stage = "build" /\ Gbuilds[1].ref = "42"
    /\ Gbuilds[5].stage = "sign" /\ Gbuilds[5].ref = "42"

PullVersions == { "pull-" \o v : v \in Versions }

AllPhases == {"linux", "win-unsigned", "osx-unsigned", "win-signed", "osx-signed"}

\* C12: with -p, once any stage function has been entered args.version is
\* pull-<n> and args.commit is the fetched merge head, and every gbuild
\* commit, gsign and gverify release label and ledger path of the run was
\* formed from the rewritten values.
C12_PullResolvedBeforeStages ==
    (args.pull /\ stageLog # <<>>) =>
        /\ args.version \in PullVersions
        /\ args.commit \in MergeHeads
        /\ \A i \in 1..Len(Gbuilds) : Gbuilds[i].ref = args.commit
        /\ \A i \in 1..Len(Gsigns) :
              Gsigns[i].ref \in { ReleaseLabel(args.version, ph) : ph \in AllPhases }
        /\ \A i \in 1..Len(probes.log) :
              probes.log[i].release = ProbeLabels(args.version)[i]
        /\ (ledger.wt \cup ledger.absent \cup ledger.index)
              \subseteq { LedgerPath(args.version, ph, args.signer) : ph \in AllPhases }

C12_Witness ==
    /\ args.pull /\ args.version = "pull-42" /\ args.commit = "9f2c1e"
    /\ stageLog = <<"build", "codesign", "sign", "verify">>
    /\ Len(Gbuilds) = 5 /\ Gbuilds[1].ref = "9f2c1e"
    /\ Len(ledger.commits) = 2
    /\ Len(probes.log) = 5 /\ probes.log[5].release = "pull-42-osx-signed"


ConfigError ==
    \/ (args.is_commit /\ args.pull)
    \/ (args.kvm /\ args.docker)
    \/ Missing(args.signer) \/ Missing(args.version)

\* C13 as stated: a run with conflicting flags or a missing signer or
\* version ends before any external program was run and before any stage,
\* and with the usage message and exit code 1 when signer or version is
\* missing.
C13_Original ==
    (pc = Halt /\ ConfigError) =>
        /\ ~host.queried
        /\ stageLog = <<>>
        /\ (Missing(args.signer) \/ Missing(args.version)) => exit = UsageExit


\* package() was run on a directory that an earlier package() had already
\* laid out and to which this run added nothing
Repackaging ==
    /\ tree.pre = "packaged"
    /\ release \subseteq {[stage |-> "package", target |-> "-"]}

\* C14 as stated: run again on an already packaged directory, package() is
\* never stopped by a move whose pattern matches nothing, and it leaves every
\* file where the earlier run put it
C14_Original ==
    Repackaging =>
        /\ tree.nomatch = "-"
        /\ tree.files = PreFiles("packaged", args.version)


\* the step runs prog in stage st
Runs(prog, st) ==
    /\ Len(calls') = Len(calls) + 1
    /\ calls'[Len(calls')].prog = prog
    /\ calls'[Len(calls')].stage = st

\* the last call made was a successful run of prog for target tg in stage st
LastCallOk(prog, st, tg) ==
    /\ calls # <<>>
    /\ LET c == calls[Len(calls)]
       IN  c.prog = prog /\ c.stage = st /\ c.target = tg /\ c.ok

\* preset_gpg_passphrase was called for target tg of stage st, has returned,
\* and the agent it started still holds every passphrase it was given
StagedFor(st, tg) ==
    /\ session.done /\ session.agent
    /\ session.cached = session.listed
    /\ session.stage = st /\ session.target = tg

\* C15: in build() the credential staging of a target starts only after
\* its gbuild succeeded, its gsign runs only after that staging returned,
\* and its moves start only after its gsign succeeded; in sign() every gsign
\* runs after the staging of that sign() returned, with the agent not
\* stopped since
C15_StepOrder ==
    [][ /\ (pc.st = "build" /\ pc.op = "kill" /\ pc' # pc)
            => LastCallOk("gbuild", "build", pc.tg)
        /\ Runs("gsign", "build")
            => /\ LastCallOk("gbuild", "build", calls'[Len(calls')].target)
               /\ StagedFor("build", calls'[Len(calls')].target)
        /\ Runs("gsign", "sign") => StagedFor("sign", "-")
        /\ (pc.st = "build" /\ pc.op \in {"mv_inputs", "mv"} /\ pc' # pc)
            => LastCallOk("gsign", "build", pc.tg)
        /\ (release' # release /\ pc.st \in {"build", "sign"})
            => LastCallOk("gsign", pc.st, pc.tg)
      ]_vars

\* a target of build() was built, signed and moved, and sign() signed too
C15_Witness ==
    /\ \E tg \in AllTargets : [stage |-> "build", target |-> tg] \in release
    /\ \E i \in 1..Len(calls) :
        calls[i].prog = "gsign" /\ calls[i].stage = "sign" /\ calls[i].ok


\* C16 as stated: the agent is stopped, started, the signer's keygrips are
\* listed and each is preset, in that order, and preset_gpg_passphrase
\* returns only with the agent running and a passphrase preset for every
\* keygrip of the signer
C16_Original ==
    /\ pc.op \in {"keygrips", "preset"} => session.agent
    /\ pc.op = "preset" => session.cached < session.listed
    /\ session.done =>
        /\ session.agent
        /\ session.cached = session.listed
        /\ ~session.short


\* the stage and target pairs whose files are moved into the release directory
Groups ==
    ({"build"} \X AllTargets) \cup ({"sign"} \X {"windows", "macos"})

\* gbuild and then gsign ran for target tg in stage st, and both succeeded
BuiltAndSigned(st, tg) ==
    \E i, j \in 1..Len(calls) :
        /\ i < j
        /\ calls[i].prog = "gbuild" /\ calls[i].stage = st
        /\ calls[i].target = tg /\ calls[i].ok
        /\ calls[j].prog = "gsign" /\ calls[j].stage = st
        /\ calls[j].target = tg /\ calls[j].ok

\* the files of target tg of stage st were put into the release directory
\* by this run
MovedIn(st, tg) ==
    \/ [stage |-> st, target |-> tg] \in release
    \/ /\ tree.pre = "unseen"
       /\ TopLevel(GroupFiles(st, tg, args.version)) \subseteq tree.files

\* C17: the release directory holds the files of a target of build() or
\* sign() only if that stage's gbuild and gsign for the target both succeeded
C17_NoFilesOfFailedTarget ==
    \A g \in Groups : MovedIn(g[1], g[2]) => BuiltAndSigned(g[1], g[2])

\* build() moved the files of one target and stopped at the next one
C17_Witness ==
    /\ pc = Halt /\ exit = Raised
    /\ \E g \in Groups : MovedIn(g[1], g[2])
    /\ \E i \in 1..Len(calls) : ~calls[i].ok


\* C18 as stated: no ledger commit of build() or sign() succeeds while the
\* ledger's working tree holds local modifications besides the entries the
\* stage added, and none takes such modifications in
C18_Original ==
    \A i \in 1..Len(ledger.commits) :
        /\ ~ledger.commits[i].dirty
        /\ ~ledger.commits[i].others


PastBuildTargets ==
    /\ "build" \in Range(stageLog)
    /\ \/ (pc.st = "build" /\ pc.op \in {"add", "commit"})
       \/ ledger.index # {} \/ ledger.absent # {} \/ ledger.issued > 0
       \/ Len(stageLog) > 1
       \/ (pc = Halt /\ exit # Raised)

\* gbuild or gsign failed in build()
BuildCallFailed ==
    \E i \in 1..Len(calls) : calls[i].stage = "build" /\ ~calls[i].ok

\* build() has added nothing to the ledger's index and committed nothing
NoLedgerUse ==
    /\ ledger.index = {} /\ ledger.absent = {}
    /\ ledger.issued = 0 /\ ledger.commits = <<>>

\* C20: build() reaches its ledger adds, and main any later stage or a
\* normal end, only when gbuild, gsign and the move succeeded for every
\* enabled target; once a gbuild or gsign of build() has failed the run has
\* ended with an exception, the ledger unused and build the only stage
\* entered
C20_BuildFailureAborts ==
    /\ PastBuildTargets =>
          \A tg \in AllTargets :
              args[tg] => /\ BuiltAndSigned("build", tg)
                          /\ [stage |-> "build", target |-> tg] \in release
    /\ BuildCallFailed =>
          /\ pc = Halt /\ exit = Raised
          /\ stageLog = <<"build">>
          /\ NoLedgerUse

\* a later target's step failed after an earlier target was moved, in a
\* run that was to commit and to go on to sign()
C20_Witness ==
    /\ pc = Halt /\ exit = Raised
    /\ stageLog = <<"build">>
    /\ args.commit_files /\ args.sign
    /\ release # {}
    /\ \E tg \in AllTargets : args[tg] /\ [stage |-> "build", target |-> tg] \notin release
    /\ NoLedgerUse


\* the command line asks for none of build, sign, codesign, verify, package
NoStageRequested ==
    /\ ~args.build /\ ~args.sign /\ ~args.buildsign
    /\ ~args.codesign /\ ~args.verify /\ ~args.package

\* the process is in parse_args, in the environment lines of main, in
\* setup(), at the test of line 319, or has ended
BeforePull ==
    \/ pc.st \in {"parse_args", "setup"}
    \/ (pc.st = "main" /\ pc.op \in {"env", "stages"})
    \/ pc = Halt

\* no pull request was resolved, no stage entered, no agent stopped or
\* started, no gbuild, gsign or gverify run, and neither the ledger nor
\* litecoin-detached-sigs nor the release directory touched
NothingRun ==
    /\ BeforePull
    /\ args.version \in Versions \cup {None, ""}
    /\ args.commit \in {None} \cup Versions \cup { "v" \o v : v \in Versions \cup {""} } \cup {""}
    /\ stageLog = <<>> /\ calls = <<>>
    /\ session = NoSession("-", "-")
    /\ ledger = [wt |-> {}, absent |-> {}, index |-> {}, foreign |-> "unseen",
                 issued |-> 0, commits |-> <<>>]
    /\ sigs.commits = 0 /\ sigs.tags = 0 /\ sigs.pushes = 0
    /\ ~sigs.unpacked /\ ~sigs.staged
    /\ ~probes.pulled /\ probes.log = <<>>
    /\ release = {} /\ tree.pre = "unseen" /\ tree.files = {}

\* C21 (as amended): with no stage requested nothing but parse_args, the
\* environment normalization and the optional setup() runs; a run that gets
\* to line 319 ends there with sys.exit(0), and a run ends otherwise only
\* inside parse_args or inside setup(), from setup() with an exception or
\* with setup's own sys.exit
C21_NoStageExitsEarly ==
    [][ NoStageRequested =>
            /\ NothingRun'
            /\ At("main", "stages") => (pc' = Halt /\ exit' = SysExit(0))
            /\ (pc' = Halt /\ pc.st = "setup") => exit' \in {Raised, SysExit(0), SysExit(1)}
      ]_vars

\* a pull request was named, setup() ran and returned (it ends the run
\* itself on bionic with LXC), and the run ended at line 320
C21_Witness ==
    /\ NoStageRequested /\ args.setup /\ args.pull
    /\ host.queried
    /\ ~(args.is_bionic /\ ~args.kvm /\ ~args.docker)
    /\ env = NormalizedEnv(env, args.docker, args.kvm)
    /\ pc = Halt /\ exit = SysExit(0)

\* C21 as stated: with no stage requested, a run that got to the environment
\* normalization ends with exit code 0, and nothing else was run
C21_Original ==
    [][ (NoStageRequested /\ pc.st \in {"main", "setup"} /\ pc' = Halt)
            => (exit'.code = 0 /\ NothingRun')
      ]_vars

====
